---- MODULE Spec2Model ----
(***************************************************************************)
(* Model of scripts/generate_maps.py: a sequential script that loads a     *)
(* table of scored airports and renders three maps (heat map, marker map,  *)
(* state summary map), saving each as an HTML file.                        *)
(*                                                                         *)
(* Numbers.  Scores are fixed-point integers in thousandths (70000 is      *)
(* 70.0).  Values rounded to two decimals are multiples of 10.  A circle   *)
(* radius is held in tenths (count / 10 is the integer count, in tenths).  *)
(* A nullable cell is a sequence: <<>> is NaN, <<v>> holds the value v.    *)
(* A row is a function from the column names present to the cell values,   *)
(* so reading a column that is absent is the KeyError of the source.       *)
(***************************************************************************)
EXTENDS Integers, Sequences, FiniteSets, TLC

VARIABLES file, df, pc, i, heat_data, high_opportunities, markers,
          state_summary, circles, saved, error, probe

vars == <<file, df, pc, i, heat_data, high_opportunities, markers,
          state_summary, circles, saved, error, probe>>

\* ---------------------------------------------------------------- bounds
MaxRows == 2

MaxCount == 305

\* ------------------------------------------------------- input domains
RequiredColumns ==
  {"LAT_DECIMAL", "LONG_DECIMAL", "predicted_score", "ARPT_NAME", "CITY",
   "STATE_NAME", "cert_importance_score", "is_military_relevant"}

NaN == <<>>

\* The (latitude, longitude) cells of a row: both present, or one missing.
CoordValues == {<<<<31>>, <<-97>>>>, <<NaN, <<-97>>>>, <<<<31>>, NaN>>}

ScoreValues == {20000, 59996, 69990, 70000, 75000, 85000}

\* The state names of the input, in the lexicographic order groupby sorts by.
StateOrder == <<"Guam", "Texas">>

StateNames == {StateOrder[k] : k \in 1..Len(StateOrder)}

RowsFor(columns) ==
  { [c \in columns |->
       CASE c = "LAT_DECIMAL" -> co[1]
         [] c = "LONG_DECIMAL" -> co[2]
         [] c = "predicted_score" -> sc
         [] c = "STATE_NAME" -> st
         [] c = "ARPT_NAME" -> "Airport"
         [] c = "CITY" -> "City"
         [] c = "cert_importance_score" -> 1
         [] OTHER -> TRUE] :
      co \in CoordValues, sc \in ScoreValues, st \in StateNames }

ColumnSets == {RequiredColumns} \cup {RequiredColumns \ {c} : c \in RequiredColumns}

\* ------------------------------------------------------------- helpers
Has(row, c) == c \in DOMAIN row

NotNa(cell) == cell # NaN

Min2(a, b) == IF a <= b THEN a ELSE b

Fatal(kind) ==
  /\ pc' = "fatal"
  /\ error' = kind

\* ---------------------------------------------------- pure computations
\* The test `pd.notna(row['LAT_DECIMAL']) and pd.notna(row['LONG_DECIMAL'])`,
\* evaluated left to right with short-circuit: the longitude is read only
\* when the latitude is present and not NaN.
CoordTest(row) ==
  IF ~Has(row, "LAT_DECIMAL") THEN "KeyError"
  ELSE IF ~NotNa(row["LAT_DECIMAL"]) THEN "skip"
  ELSE IF ~Has(row, "LONG_DECIMAL") THEN "KeyError"
  ELSE IF ~NotNa(row["LONG_DECIMAL"]) THEN "skip"
  ELSE "valid"

\* Variant of MarkerStyle with the top tier exclusive of 85.
MarkerStyleStrict(score) ==
  IF score > 85000 THEN [color |-> "red", icon |-> "star"]
  ELSE IF score >= 75000 THEN [color |-> "orange", icon |-> "plane"]
  ELSE [color |-> "yellow", icon |-> "info-sign"]

\* Marker colour and icon by score tier.
MarkerStyle(score) ==
  IF score >= 85000 THEN [color |-> "red", icon |-> "star"]
  ELSE IF score >= 75000 THEN [color |-> "orange", icon |-> "plane"]
  ELSE [color |-> "yellow", icon |-> "info-sign"]

\* The columns the popup template of a marker reads.
PopupColumns ==
  {"ARPT_NAME", "CITY", "STATE_NAME", "predicted_score",
   "cert_importance_score", "is_military_relevant"}

\* Variant of HighRows that follows the source comment "score > 70".
HighRowsStrict(rows) == SelectSeq(rows, LAMBDA r : r["predicted_score"] > 70000)

\* df[df['predicted_score'] >= 70]
HighRows(rows) == SelectSeq(rows, LAMBDA r : r["predicted_score"] >= 70000)

RECURSIVE SumScores(_)
SumScores(rows) ==
  IF rows = <<>> THEN 0
  ELSE rows[1]["predicted_score"] + SumScores(Tail(rows))

RECURSIVE MaxScore(_)
MaxScore(rows) ==
  IF Len(rows) = 1 THEN rows[1]["predicted_score"]
  ELSE LET m == MaxScore(Tail(rows))
       IN IF rows[1]["predicted_score"] >= m THEN rows[1]["predicted_score"] ELSE m

\* Variant of Round2 that truncates to two decimals instead of rounding.
Round2Truncating(num, den, up) == 10 * (num \div (10 * den))

\* round(2) of the value num / den (in thousandths): the nearest multiple
\* of 10.  A value exactly half way between two multiples has no exact
\* binary representation in general, so the floating-point result may fall
\* on either side: `up` is the side taken.
Round2(num, den, up) ==
  LET d == 10 * den
      q == num \div d
      r == num % d
  IN 10 * (IF 2 * r < d THEN q
           ELSE IF 2 * r > d THEN q + 1
           ELSE IF up THEN q + 1 ELSE q)

\* Variant of GroupRows that does not separate the states.
GroupRowsAll(rows, s) == rows

\* The rows of one group of df.groupby('STATE_NAME').
GroupRows(rows, s) == SelectSeq(rows, LAMBDA r : r["STATE_NAME"] = s)

\* The group keys, sorted as groupby sorts them.
GroupKeys(rows) ==
  SelectSeq(StateOrder, LAMBDA s : \E k \in 1..Len(rows) : rows[k]["STATE_NAME"] = s)

\* One row of state_summary: mean, max and count of a group, rounded.
StateAggregate(rows, s, upAvg, upMax) ==
  LET g == GroupRows(rows, s)
  IN [state |-> s,
      avg_score |-> Round2(SumScores(g), Len(g), upAvg),
      max_score |-> Round2(MaxScore(g), 1, upMax),
      count |-> Len(g)]

\* The values one row of state_summary can take (one per rounding outcome).
StateAggregates(rows, s) ==
  IF GroupRows(rows, s) = <<>> THEN {}
  ELSE {StateAggregate(rows, s, upAvg, upMax) : upAvg \in BOOLEAN, upMax \in BOOLEAN}

state_centers ==
  [s \in {"Texas", "California", "Florida", "Alaska", "Montana", "New York",
          "Arizona", "Nevada", "Colorado", "Illinois", "Georgia", "Michigan",
          "Pennsylvania", "Ohio", "North Carolina"} |->
     CASE s = "Texas" -> <<31054487, -97563461>>
       [] s = "California" -> <<36116203, -119681564>>
       [] s = "Florida" -> <<27766279, -81686783>>
       [] s = "Alaska" -> <<61370716, -152404419>>
       [] s = "Montana" -> <<46921925, -110454353>>
       [] s = "New York" -> <<42165726, -74948051>>
       [] s = "Arizona" -> <<33729759, -111431221>>
       [] s = "Nevada" -> <<38313515, -117055374>>
       [] s = "Colorado" -> <<39059811, -105311104>>
       [] s = "Illinois" -> <<40349457, -88986137>>
       [] s = "Georgia" -> <<33040619, -83643074>>
       [] s = "Michigan" -> <<43326618, -84536095>>
       [] s = "Pennsylvania" -> <<40590752, -77209755>>
       [] s = "Ohio" -> <<40388783, -82764915>>
       [] OTHER -> <<35630066, -79806419>>]

\* Fill colour of a state circle by its (rounded) average score.
CircleColor(avg_score) ==
  IF avg_score >= 60000 THEN "red"
  ELSE IF avg_score >= 50000 THEN "orange"
  ELSE IF avg_score >= 40000 THEN "yellow"
  ELSE "green"

\* Variant of CircleRadius without the cap.
CircleRadiusUncapped(count) == count

\* min(count / 10, 30), in tenths.
CircleRadius(count) == Min2(count, 30 * 10)

\* ------------------------------------------------------------ the script
\* Before line 10 runs.  The input file is missing, unparsable, or a table
\* of 1..MaxRows rows that has all the required columns or lacks one.
Init ==
  /\ \/ \E cs \in ColumnSets, n \in 1..MaxRows :
          \E rs \in [1..n -> RowsFor(cs)] :
            file = [status |-> "ok", columns |-> cs, rows |-> rs]
     \/ \E st \in {"missing", "unparsable"} :
          file = [status |-> st, columns |-> {}, rows |-> <<>>]
  /\ df = <<>>
  /\ pc = "load"
  /\ i = 0
  /\ heat_data = <<>>
  /\ high_opportunities = <<>>
  /\ markers = <<>>
  /\ state_summary = <<>>
  /\ circles = <<>>
  /\ saved = <<>>
  /\ error = "none"
  /\ probe = <<>>

\* pd.read_csv succeeds.
Load ==
  /\ pc = "load"
  /\ file.status = "ok"
  /\ df' = file.rows
  /\ pc' = "heat"
  /\ i' = 1
  /\ UNCHANGED <<file, heat_data, high_opportunities, markers, state_summary,
                 circles, saved, error, probe>>

\* Variant of LoadFail in which the error is swallowed and the run goes on
\* with an empty table.
LoadFailRecovered ==
  /\ pc = "load"
  /\ file.status # "ok"
  /\ df' = <<>>
  /\ pc' = "heat"
  /\ i' = 1
  /\ UNCHANGED <<file, heat_data, high_opportunities, markers, state_summary,
                 circles, saved, error, probe>>

\* pd.read_csv raises; nothing catches it.
LoadFail ==
  /\ pc = "load"
  /\ file.status # "ok"
  /\ Fatal(IF file.status = "missing" THEN "FileNotFoundError" ELSE "ParserError")
  /\ UNCHANGED <<file, df, i, heat_data, high_opportunities, markers,
                 state_summary, circles, saved, probe>>

\* One iteration of the heat data loop: the row is appended.
HeatAppend ==
  /\ pc = "heat"
  /\ i <= Len(df)
  /\ CoordTest(df[i]) = "valid"
  /\ Has(df[i], "predicted_score")
  /\ heat_data' = Append(heat_data,
        <<df[i]["LAT_DECIMAL"], df[i]["LONG_DECIMAL"], df[i]["predicted_score"]>>)
  /\ i' = i + 1
  /\ UNCHANGED <<file, df, pc, high_opportunities, markers, state_summary,
                 circles, saved, error, probe>>

\* Variant of HeatSkip without the coordinate test: the row is appended.
HeatSkipAppends ==
  /\ pc = "heat"
  /\ i <= Len(df)
  /\ CoordTest(df[i]) = "skip"
  /\ Has(df[i], "LONG_DECIMAL")
  /\ Has(df[i], "predicted_score")
  /\ heat_data' = Append(heat_data,
        <<df[i]["LAT_DECIMAL"], df[i]["LONG_DECIMAL"], df[i]["predicted_score"]>>)
  /\ i' = i + 1
  /\ UNCHANGED <<file, df, pc, high_opportunities, markers, state_summary,
                 circles, saved, error, probe>>

\* One iteration of the heat data loop: a coordinate is NaN.
HeatSkip ==
  /\ pc = "heat"
  /\ i <= Len(df)
  /\ CoordTest(df[i]) = "skip"
  /\ i' = i + 1
  /\ UNCHANGED <<file, df, pc, heat_data, high_opportunities, markers,
                 state_summary, circles, saved, error, probe>>

\* One iteration of the heat data loop: a column it reads is absent.
HeatKeyError ==
  /\ pc = "heat"
  /\ i <= Len(df)
  /\ \/ CoordTest(df[i]) = "KeyError"
     \/ CoordTest(df[i]) = "valid" /\ ~Has(df[i], "predicted_score")
  /\ Fatal("KeyError")
  /\ UNCHANGED <<file, df, i, heat_data, high_opportunities, markers,
                 state_summary, circles, saved, probe>>

\* m1.save('opportunity_heatmap.html')
SaveHeatmap ==
  /\ pc = "heat"
  /\ i > Len(df)
  /\ saved' = Append(saved, "opportunity_heatmap.html")
  /\ pc' = "filter"
  /\ UNCHANGED <<file, df, i, heat_data, high_opportunities, markers,
                 state_summary, circles, error, probe>>

\* high_opportunities = df[df['predicted_score'] >= 70].copy()
FilterHigh ==
  /\ pc = "filter"
  /\ "predicted_score" \in file.columns
  /\ high_opportunities' = HighRows(df)
  /\ pc' = "markers"
  /\ i' = 1
  /\ UNCHANGED <<file, df, heat_data, markers, state_summary, circles, saved,
                 error, probe>>

FilterKeyError ==
  /\ pc = "filter"
  /\ "predicted_score" \notin file.columns
  /\ Fatal("KeyError")
  /\ UNCHANGED <<file, df, i, heat_data, high_opportunities, markers,
                 state_summary, circles, saved, probe>>

\* One iteration of the marker loop: a marker is added to the cluster.
MarkerAdd ==
  /\ pc = "markers"
  /\ i <= Len(high_opportunities)
  /\ LET row == high_opportunities[i]
     IN /\ CoordTest(row) = "valid"
        /\ PopupColumns \subseteq DOMAIN row
        /\ markers' = Append(markers,
              [location |-> <<row["LAT_DECIMAL"], row["LONG_DECIMAL"]>>,
               color |-> MarkerStyle(row["predicted_score"]).color,
               icon |-> MarkerStyle(row["predicted_score"]).icon,
               score |-> row["predicted_score"]])
  /\ i' = i + 1
  /\ UNCHANGED <<file, df, pc, heat_data, high_opportunities, state_summary,
                 circles, saved, error, probe>>

\* One iteration of the marker loop: a coordinate is NaN.
MarkerSkip ==
  /\ pc = "markers"
  /\ i <= Len(high_opportunities)
  /\ CoordTest(high_opportunities[i]) = "skip"
  /\ i' = i + 1
  /\ UNCHANGED <<file, df, pc, heat_data, high_opportunities, markers,
                 state_summary, circles, saved, error, probe>>

\* Variant of MarkerKeyError in which a row with an absent column is passed
\* over instead of raising.
MarkerKeyErrorSkipped ==
  /\ pc = "markers"
  /\ i <= Len(high_opportunities)
  /\ LET row == high_opportunities[i]
     IN \/ CoordTest(row) = "KeyError"
        \/ CoordTest(row) = "valid" /\ ~(PopupColumns \subseteq DOMAIN row)
  /\ i' = i + 1
  /\ UNCHANGED <<file, df, pc, heat_data, high_opportunities, markers,
                 state_summary, circles, saved, error, probe>>

\* One iteration of the marker loop: a column it reads is absent.
MarkerKeyError ==
  /\ pc = "markers"
  /\ i <= Len(high_opportunities)
  /\ LET row == high_opportunities[i]
     IN \/ CoordTest(row) = "KeyError"
        \/ CoordTest(row) = "valid" /\ ~(PopupColumns \subseteq DOMAIN row)
  /\ Fatal("KeyError")
  /\ UNCHANGED <<file, df, i, heat_data, high_opportunities, markers,
                 state_summary, circles, saved, probe>>

\* Variant of SaveDetailed that does not write the file.
SaveDetailedUnwritten ==
  /\ pc = "markers"
  /\ i > Len(high_opportunities)
  /\ pc' = "summary"
  /\ UNCHANGED <<file, df, i, heat_data, high_opportunities, markers,
                 state_summary, circles, saved, error, probe>>

\* m2.save('detailed_opportunities.html')
SaveDetailed ==
  /\ pc = "markers"
  /\ i > Len(high_opportunities)
  /\ saved' = Append(saved, "detailed_opportunities.html")
  /\ pc' = "summary"
  /\ UNCHANGED <<file, df, i, heat_data, high_opportunities, markers,
                 state_summary, circles, error, probe>>

\* state_summary = df.groupby('STATE_NAME').agg(...).round(2)
Summarize ==
  /\ pc = "summary"
  /\ {"STATE_NAME", "predicted_score"} \subseteq file.columns
  /\ state_summary' \in
       { ss \in [1..Len(GroupKeys(df)) ->
                   UNION {StateAggregates(df, s) : s \in StateNames}] :
           \A k \in DOMAIN ss : ss[k] \in StateAggregates(df, GroupKeys(df)[k]) }
  /\ pc' = "circles"
  /\ i' = 1
  /\ UNCHANGED <<file, df, heat_data, high_opportunities, markers, circles,
                 saved, error, probe>>

SummarizeKeyError ==
  /\ pc = "summary"
  /\ ~({"STATE_NAME", "predicted_score"} \subseteq file.columns)
  /\ Fatal("KeyError")
  /\ UNCHANGED <<file, df, i, heat_data, high_opportunities, markers,
                 state_summary, circles, saved, probe>>

\* One iteration of the state loop: the state is in state_centers.
CircleDraw ==
  /\ pc = "circles"
  /\ i <= Len(state_summary)
  /\ LET stats == state_summary[i]
     IN /\ stats.state \in DOMAIN state_centers
        /\ circles' = Append(circles,
              [state |-> stats.state,
               location |-> state_centers[stats.state],
               radius |-> CircleRadius(stats.count),
               fillColor |-> CircleColor(stats.avg_score),
               avg_score |-> stats.avg_score,
               max_score |-> stats.max_score,
               count |-> stats.count])
  /\ i' = i + 1
  /\ UNCHANGED <<file, df, pc, heat_data, high_opportunities, markers,
                 state_summary, saved, error, probe>>

\* Variant of CircleSkip without the membership test: the table lookup
\* raises.
CircleSkipRaises ==
  /\ pc = "circles"
  /\ i <= Len(state_summary)
  /\ state_summary[i].state \notin DOMAIN state_centers
  /\ Fatal("KeyError")
  /\ UNCHANGED <<file, df, i, heat_data, high_opportunities, markers,
                 state_summary, circles, saved, probe>>

\* One iteration of the state loop: the state is not in state_centers.
CircleSkip ==
  /\ pc = "circles"
  /\ i <= Len(state_summary)
  /\ state_summary[i].state \notin DOMAIN state_centers
  /\ i' = i + 1
  /\ UNCHANGED <<file, df, pc, heat_data, high_opportunities, markers,
                 state_summary, circles, saved, error, probe>>

\* m3.save('state_opportunities.html'), then the closing prints.
SaveState ==
  /\ pc = "circles"
  /\ i > Len(state_summary)
  /\ saved' = Append(saved, "state_opportunities.html")
  /\ pc' = "done"
  /\ UNCHANGED <<file, df, i, heat_data, high_opportunities, markers,
                 state_summary, circles, error, probe>>

Next ==
  \/ Load
  \/ LoadFail
  \/ HeatAppend
  \/ HeatSkip
  \/ HeatKeyError
  \/ SaveHeatmap
  \/ FilterHigh
  \/ FilterKeyError
  \/ MarkerAdd
  \/ MarkerSkip
  \/ MarkerKeyError
  \/ SaveDetailed
  \/ Summarize
  \/ SummarizeKeyError
  \/ CircleDraw
  \/ CircleSkip
  \/ SaveState

Spec == Init /\ [][Next]_vars

\* ------------------------------------------- the radius as a function
\* The radius computed for two record counts c1 <= c2.
InitRadius ==
  /\ file = [status |-> "missing", columns |-> {}, rows |-> <<>>]
  /\ df = <<>>
  /\ pc = "radius"
  /\ i = 0
  /\ heat_data = <<>>
  /\ high_opportunities = <<>>
  /\ markers = <<>>
  /\ state_summary = <<>>
  /\ circles = <<>>
  /\ saved = <<>>
  /\ error = "none"
  /\ \E c1 \in 0..MaxCount, c2 \in 0..MaxCount :
       /\ c1 <= c2
       /\ probe = [c1 |-> c1, c2 |-> c2, r1 |-> <<>>, r2 |-> <<>>]

ComputeRadius ==
  /\ pc = "radius"
  /\ probe.r1 = <<>>
  /\ probe' = [probe EXCEPT !.r1 = <<CircleRadius(probe.c1)>>,
                            !.r2 = <<CircleRadius(probe.c2)>>]
  /\ UNCHANGED <<file, df, pc, i, heat_data, high_opportunities, markers,
                 state_summary, circles, saved, error>>

NextRadius == ComputeRadius

SpecRadius == InitRadius /\ [][NextRadius]_vars

\* ================================================================ claims
\* Vocabulary of the properties, stated on the input rows directly.
NullCoord(r) ==
  \/ "LAT_DECIMAL" \in DOMAIN r /\ r["LAT_DECIMAL"] = NaN
  \/ "LONG_DECIMAL" \in DOMAIN r /\ r["LONG_DECIMAL"] = NaN

ValidRow(r) ==
  /\ "LAT_DECIMAL" \in DOMAIN r
  /\ r["LAT_DECIMAL"] # NaN
  /\ "LONG_DECIMAL" \in DOMAIN r
  /\ r["LONG_DECIMAL"] # NaN

RowsOfState(s) == {k \in 1..Len(file.rows) : file.rows[k]["STATE_NAME"] = s}

ValidRowsOfState(s) == {k \in RowsOfState(s) : ValidRow(file.rows[k])}

RECURSIVE TotalScore(_)
TotalScore(K) ==
  IF K = {} THEN 0
  ELSE LET k == CHOOSE x \in K : TRUE
       IN file.rows[k]["predicted_score"] + TotalScore(K \ {k})

\* v is num / den rounded to two decimals (a multiple of 10 thousandths at
\* most half a hundredth away).
IsRounded2(v, num, den) ==
  /\ v % 10 = 0
  /\ 2 * (v * den - num) <= 10 * den
  /\ 2 * (num - v * den) <= 10 * den

HeatLoopOver ==
  \/ pc \in {"filter", "markers", "summary", "circles", "done"}
  \/ pc = "fatal" /\ Len(saved) >= 1

MarkerLoopOver ==
  \/ pc \in {"summary", "circles", "done"}
  \/ pc = "fatal" /\ Len(saved) >= 2

SummaryBuilt == pc \in {"circles", "done"}

HeatAndMarkersOmitNullRows ==
  /\ \A k \in 1..Len(heat_data) : heat_data[k][1] # NaN /\ heat_data[k][2] # NaN
  /\ \A k \in 1..Len(markers) :
       markers[k].location[1] # NaN /\ markers[k].location[2] # NaN
  /\ HeatLoopOver =>
       Len(heat_data) = Cardinality({k \in 1..Len(df) : ValidRow(df[k])})
  /\ MarkerLoopOver =>
       Len(markers) <= Cardinality({k \in 1..Len(df) : ValidRow(df[k])})

\* C1 (as stated): a record with a null latitude or longitude appears in no
\* layer: no heat entry, no marker, and it is not counted in any state
\* circle that is drawn.
C1_NullRowsInNoLayer ==
  /\ HeatAndMarkersOmitNullRows
  /\ \A k \in 1..Len(circles) :
       circles[k].count = Cardinality(ValidRowsOfState(circles[k].state))

\* C1 (amended): a record with a null latitude or longitude contributes no
\* heat entry and no marker, but the state summary groups all loaded
\* records, so it is counted in the circle of its state.
C1_NullRowsOmittedFromPointLayers ==
  /\ HeatAndMarkersOmitNullRows
  /\ \A k \in 1..Len(circles) :
       circles[k].count = Cardinality(RowsOfState(circles[k].state))

C1_Witness ==
  /\ pc = "done"
  /\ heat_data # <<>>
  /\ \E k \in 1..Len(df), c \in 1..Len(circles) :
       /\ NullCoord(df[k])
       /\ df[k]["STATE_NAME"] = circles[c].state
       /\ circles[c].count = 2

MarkedRows ==
  SelectSeq(df, LAMBDA r : r["predicted_score"] >= 70000 /\ ValidRow(r))

C3_MarkerTiers ==
  \A k \in 1..Len(markers) :
    LET m == markers[k]
    IN \/ m.score >= 85000 /\ m.color = "red" /\ m.icon = "star"
       \/ m.score >= 75000 /\ m.score < 85000 /\ m.color = "orange" /\ m.icon = "plane"
       \/ m.score >= 70000 /\ m.score < 75000 /\ m.color = "yellow" /\ m.icon = "info-sign"

C3_Witness ==
  /\ Len(markers) = 2
  /\ markers[1].score = 85000 /\ markers[1].color = "red"
  /\ markers[2].score = 75000 /\ markers[2].color = "orange"

\* C4: for every state name in the input, state_summary holds the count,
\* the maximum and the mean (both rounded to two decimals) of exactly the
\* records of that state.
C4_StateAggregates ==
  SummaryBuilt =>
    /\ Len(state_summary) =
         Cardinality({df[k]["STATE_NAME"] : k \in 1..Len(df)})
    /\ \A k \in 1..Len(df) :
         LET s == df[k]["STATE_NAME"]
             K == RowsOfState(s)
         IN \E j \in 1..Len(state_summary) :
              /\ state_summary[j].state = s
              /\ state_summary[j].count = Cardinality(K)
              /\ IsRounded2(state_summary[j].avg_score, TotalScore(K), Cardinality(K))
              /\ \E m \in K :
                   /\ \A o \in K : df[o]["predicted_score"] <= df[m]["predicted_score"]
                   /\ IsRounded2(state_summary[j].max_score, df[m]["predicted_score"], 1)

C4_Witness ==
  /\ pc = "done"
  /\ Len(state_summary) = 1
  /\ state_summary[1].count = 2
  /\ state_summary[1].avg_score = 65000
  /\ state_summary[1].max_score = 70000

\* C5: the radius is non-decreasing in the count and never exceeds 30
\* (300 tenths); it is count / 10 below the cap, which is reached exactly
\* from count 300 on.
C5_RadiusMonotonicCapped ==
  (pc = "radius" /\ probe.r1 # <<>>) =>
    /\ probe.r1[1] <= probe.r2[1]
    /\ probe.r2[1] <= 300
    /\ (probe.r2[1] = 300) <=> (probe.c2 >= 300)
    /\ probe.c1 < 300 => probe.r1[1] = probe.c1

C5_Witness ==
  /\ pc = "radius"
  /\ probe.r1 # <<>>
  /\ probe.c1 = 299 /\ probe.c2 = 301
  /\ probe.r1[1] = 299 /\ probe.r2[1] = 300

OutputFiles ==
  <<"opportunity_heatmap.html", "detailed_opportunities.html",
    "state_opportunities.html">>

\* C6: a run that completes has written exactly the three HTML files, each
\* once and in order; at any time the files written are a prefix of them.
C6_ThreeFilesInOrder ==
  /\ Len(saved) <= 3
  /\ saved = SubSeq(OutputFiles, 1, Len(saved))
  /\ pc = "done" => saved = OutputFiles

C6_Witness ==
  /\ pc = "done"
  /\ Len(heat_data) < Len(df)
  /\ markers = <<>>
  /\ circles = <<>>
  /\ saved = OutputFiles

\* C7: with a missing or unparsable input file the run stops with a fatal
\* error at the load step: nothing is loaded, no view is built, no file is
\* written and completion is never reached.
C7_LoadFailureIsFatal ==
  file.status # "ok" =>
    /\ pc \in {"load", "fatal"}
    /\ pc = "fatal" => error \in {"FileNotFoundError", "ParserError"}
    /\ df = <<>>
    /\ heat_data = <<>> /\ markers = <<>> /\ circles = <<>>
    /\ saved = <<>>

C7_Witness ==
  /\ file.status = "unparsable"
  /\ pc = "fatal"
  /\ saved = <<>>

\* C8 (as stated): a dataset lacking any required column never reaches
\* successful completion, whatever its rows.
C8_MissingColumnNeverCompletes ==
  (file.status = "ok" /\ file.columns # RequiredColumns) => pc # "done"

\* The missing column is read by some statement of the run.
MissingColumnIsRead ==
  \/ "predicted_score" \notin file.columns
  \/ "STATE_NAME" \notin file.columns
  \/ "LAT_DECIMAL" \notin file.columns
  \/ /\ "LONG_DECIMAL" \notin file.columns
     /\ \E k \in 1..Len(file.rows) : file.rows[k]["LAT_DECIMAL"] # NaN
  \/ /\ ~(RequiredColumns \subseteq file.columns)
     /\ "LONG_DECIMAL" \in file.columns
     /\ \E k \in 1..Len(file.rows) :
          file.rows[k]["predicted_score"] >= 70000 /\ ValidRow(file.rows[k])

\* C8 (amended): a loaded dataset (of at least one row) lacking a required
\* column ends in a fatal KeyError exactly when the column is read: always
\* for score, state and latitude; for longitude when some row has a
\* latitude; for name, city, certification score and military flag when
\* some row has score >= 70 and both coordinates.  Otherwise it completes.
C8_MissingColumnFatalWhenRead ==
  file.status = "ok" =>
    /\ pc = "done" => ~MissingColumnIsRead
    /\ pc = "fatal" => MissingColumnIsRead /\ error = "KeyError"

C8_Witness ==
  /\ pc = "fatal"
  /\ error = "KeyError"
  /\ "CITY" \notin file.columns
  /\ file.status = "ok"
  /\ saved = <<"opportunity_heatmap.html">>
  /\ heat_data # <<>>

\* C9: a circle is drawn for a state if and only if the state has a record
\* and is a key of the coordinate table; other states are skipped without
\* error; at most one circle per state, at the table coordinates.
C9_CircleIffStateInTable ==
  /\ pc = "fatal" => state_summary = <<>>
  /\ pc = "done" =>
       /\ {circles[k].state : k \in 1..Len(circles)} =
            {s \in {df[k]["STATE_NAME"] : k \in 1..Len(df)} : s \in DOMAIN state_centers}
       /\ \A j, k \in 1..Len(circles) : circles[j].state = circles[k].state => j = k
       /\ \A k \in 1..Len(circles) :
            circles[k].location = state_centers[circles[k].state]
       /\ error = "none"

C9_Witness ==
  /\ pc = "done"
  /\ Len(state_summary) = 2
  /\ state_summary[1].state = "Guam"
  /\ Len(circles) = 1
  /\ circles[1].state = "Texas"
  /\ circles[1].location = <<31054487, -97563461>>

====
